---- MODULE Spec2Model ----
(***************************************************************************)
(* Model of the token acquisition / token cache subsystem and of the       *)
(* conversation reference store of openclaw-a365                           *)
(* (src/src/conversation-store.ts).                                        *)
(*                                                                         *)
(* Strings that the code concatenates or matches by prefix (user names,    *)
(* scopes, cache keys) are sequences of one-character strings, so that     *)
(* `${username}|${scope}` and key.startsWith(`${username}|`) are computed  *)
(* as the code computes them.  The empty sequence is the absent / empty    *)
(* string (both are falsy in the code).                                    *)
(***************************************************************************)
EXTENDS Integers, Sequences, FiniteSets, TLC

\* ------------------------------------------------------------------ bounds
\* getGraphToken calls started in one behaviour
MaxAcquires == 2
\* clock advances in one behaviour
MaxTicks == 1
\* store operations in one behaviour
MaxStoreOps == 3
\* outbound sends started in one behaviour
MaxSends == 2
\* steps of inbound requests in one behaviour
MaxCtxSteps == 6
\* reply sends the dispatcher queues while handling one message
MaxReplies == 3

\* ------------------------------------------------------- values and inputs
Undefined == << "undefined", 0 >>
None == "none"

\* Agent identities are UPNs: non-empty, and '|' is not a UPN character.
Identities == { <<"a">>, <<"a", "b">> }
\* scope argument of getGraphToken / invalidateGraphTokenCache; <<>> = omitted
ScopeArgs == { <<>>, <<"b", "|", "s">> }
DefaultScope == <<"d">>

Calls == { "c1" }
ErrorStatuses == { 401, 500 }
ErrorBodies == { "invalid_client" }
ExpiresInValues == { 300, 301 }
TickSteps == { 1000 }

\* A365Config as far as getGraphToken reads it (values after trim, "" = unset
\* in both config and environment).
Configs ==
    { [callbackUrl |-> "cb", aaInstanceId |-> "inst", graphScope |-> <<>>],
      [callbackUrl |-> "",   aaInstanceId |-> "inst", graphScope |-> <<"b", "|", "s">>],
      [callbackUrl |-> "cb", aaInstanceId |-> "",     graphScope |-> <<>>],
      [callbackUrl |-> "",   aaInstanceId |-> "",     graphScope |-> <<>>] }

\* Responses of the token endpoint and of the callback service.
\* kind "ok": HTTP success; "http": non-success status; "throw": fetch rejected.
\* has_token: the JSON body carries access_token.  The provider mints a new
\* token for every request (Minted).  expires_in 0 in a callback response
\* stands for a body with neither expires_at nor expires_in.
HttpErrors == { [kind |-> "http", status |-> st, body |-> b, has_token |-> FALSE,
                 expires_in |-> 0] : st \in ErrorStatuses, b \in ErrorBodies }
NetworkErrors == { [kind |-> "throw", status |-> 0, body |-> "", has_token |-> FALSE,
                    expires_in |-> 0] }
TierOk == { [kind |-> "ok", status |-> 200, body |-> "", has_token |-> TRUE, expires_in |-> 0] }
OkResponse(h, s) ==
    [kind |-> "ok", status |-> 200, body |-> "", has_token |-> h, expires_in |-> s]
AgentOk == { OkResponse(TRUE, s) : s \in ExpiresInValues } \cup { OkResponse(FALSE, 301) }
CallbackOk == { OkResponse(TRUE, s) : s \in {0, 301} } \cup { OkResponse(FALSE, 0) }

\* access_token of a response: minted per request, named by tier and call number
Minted(resp, tier, n) == IF resp.has_token THEN << tier, n >> ELSE Undefined

VARIABLES
    now,          \* Date.now(), milliseconds
    ticks,        \* number of clock advances so far (bounded)
    tokenCache,   \* Map<string, CachedToken>: key |-> [accessToken, expiresAt]
    cachedBy,     \* history: key |-> identity, scope and returned token of the call that set it
    pc,           \* per call: position in getGraphToken
    call,         \* per call: arguments and locals of getGraphToken
    sent,         \* per call: requests issued by this call so far, in order
    result,       \* per call: value returned to the caller
    logged,       \* per call: error caught and logged by getGraphToken
    raised,       \* per call: error with which getGraphToken rejected towards its caller
    acquires,     \* number of getGraphToken calls started (bounded)
    lastOp,       \* history: the operation that took the last step
    storeCache,   \* let storeCache: ConversationStore | null
    file,         \* content of ~/.openclaw/a365-conversations.json
    storeOps,     \* number of store operations so far (bounded)
    storeOp,      \* history: the last store operation, its arguments and outcome
    lastSaved,    \* history: per conversation id, the entry of the last completed save
    spc,          \* position of the outbound send (sendMessageA365 / sendAdaptiveCardA365)
    snd,          \* arguments and locals of the outbound send
    sendResult,   \* what the outbound send returned to (or threw at) its caller
    transport,    \* the ConnectorClient sends issued by the outbound send, in order
    sends,        \* number of outbound sends started (bounded)
    rpc,          \* per inbound request: position of its handler
    reqCtx,       \* per inbound request: the context its handler passed to runWithGraphToolContext
    alsStore,     \* per inbound request: the store AsyncLocalStorage holds for its async call chain
    seen,         \* per inbound request: the contexts its getGraphToolContext() calls returned
    lastRun,      \* history: the context of the latest runWithGraphToolContext call
    lastSet,      \* history: the context passed to the latest setGraphToolContext call
    ctxOp,        \* history: the last step of an inbound request
    ctxSteps,     \* number of steps of inbound requests (bounded)
    written,      \* history: the last write to the store file by another process, and its time
    target,       \* the last resolveTarget call: its arguments and what it returned
    handler,      \* the inbound message handler: its position and the reply sends it queued
    objs,         \* the store objects in memory, by the call that created them
    cacheObj,     \* the object storeCache refers to ("null" = none)
    saver         \* per concurrent saveConversationReference call: its position and locals

tokenVars == << tokenCache, cachedBy, pc, call, sent, result, logged, raised, acquires >>
storeVars == << storeCache, file, storeOps, storeOp, lastSaved >>
sendVars == << spc, snd, sendResult, transport, sends >>
ctxVars == << rpc, reqCtx, alsStore, seen, lastRun, lastSet, ctxOp, ctxSteps >>
extVars == << written >>
targetVars == << target >>
\* the variables of the parts that follow the tool context
handlerVars == << handler >>
asyncVars == << objs, cacheObj, saver >>
restVars == << extVars, targetVars, handlerVars, asyncVars >>

\* --------------------------------------------------------- string helpers
StartsWith(str, prefix) ==
    /\ Len(str) >= Len(prefix)
    /\ SubSeq(str, 1, Len(prefix)) = prefix

CacheKey_IgnoresScope(username, scope) == username \o <<"|">>

\* `${username}|${effectiveScope}`
CacheKey(username, scope) == username \o <<"|">> \o scope

UserPrefix_NoSeparator(username) == username

\* `${username}|` used by invalidateGraphTokenCache
UserPrefix(username) == username \o <<"|">>

\* scope || cfg?.graph?.scope || "https://graph.microsoft.com/.default"
EffectiveScope(scope, cfg) ==
    IF scope # <<>> THEN scope
    ELSE IF cfg.graphScope # <<>> THEN cfg.graphScope
    ELSE DefaultScope

ExpiryBufferMs == 5 * 60 * 1000
DefaultLifetimeMs == 3600 * 1000

CacheValid_Reversed(cache, key, t) ==
    /\ key \in DOMAIN cache
    /\ cache[key].expiresAt < t + ExpiryBufferMs

CacheValid_NoBuffer(cache, key, t) ==
    /\ key \in DOMAIN cache
    /\ cache[key].expiresAt > t

\* cached && cached.expiresAt > Date.now() + 5 * 60 * 1000
CacheValid(cache, key, t) ==
    /\ key \in DOMAIN cache
    /\ cache[key].expiresAt > t + ExpiryBufferMs

MapSet(m, k, v) == [x \in DOMAIN m \cup {k} |-> IF x = k THEN v ELSE m[x]]
MapRestrict(m, keep) == [x \in keep |-> m[x]]

\* resolveTokenCallbackConfig / resolveGraphTokenConfig
ResolveTokenCallbackConfig(cfg) == cfg.callbackUrl # ""
ResolveGraphTokenConfig(cfg) == cfg.aaInstanceId # ""

\* ---------------------------------------------------------------- requests
CallbackRequest(username, scope) ==
    [tier |-> "callback", grant_type |-> "", client_id |-> "", client_assertion |-> Undefined,
     user_fic |-> Undefined, username |-> username, scope |-> scope]
T1Request ==
    [tier |-> "T1", grant_type |-> "client_credentials", client_id |-> "blueprint",
     client_assertion |-> Undefined, user_fic |-> Undefined, username |-> <<>>, scope |-> <<"x">>]
T2Request(t1) ==
    [tier |-> "T2", grant_type |-> "client_credentials", client_id |-> "instance",
     client_assertion |-> t1, user_fic |-> Undefined, username |-> <<>>, scope |-> <<"x">>]
AgentRequest_Swapped(t1, t2, username, scope) ==
    [tier |-> "Agent", grant_type |-> "user_fic", client_id |-> "instance",
     client_assertion |-> t2, user_fic |-> t1, username |-> username, scope |-> scope]

AgentRequest(t1, t2, username, scope) ==
    [tier |-> "Agent", grant_type |-> "user_fic", client_id |-> "instance",
     client_assertion |-> t1, user_fic |-> t2, username |-> username, scope |-> scope]


\* ------------------------------------------------ conversation reference store
Undef == "undefined"
\* a Teams conversation id ("19:...") and a plain one
ConvIds == { "19:k1", "k2" }
\* userAadId argument of saveConversationReference: omitted, an object id, a UPN
UserAadIds == { Undef, "u1", "u@2" }
\* StoredConversationReference: conversation {id, isGroup}, serviceUrl?
Ref(k, g, u) == [conversation |-> [id |-> k, isGroup |-> g], serviceUrl |-> u]
\* the references inbound activities bring: each conversation as a group and as
\* a direct one, with and without a service URL
Refs == { Ref("19:k1", TRUE, "svc"), Ref("19:k1", FALSE, Undef),
          Ref("k2", FALSE, "svc"), Ref("k2", TRUE, Undef) }

\* a property read: obj.f is undefined when the object has no property f
Field(obj, f) == IF f \in DOMAIN obj THEN obj[f] ELSE Undef

\* JSON.stringify leaves out the properties whose value is undefined
\* (serviceUrl of a reference and userAadId of an entry are the optional ones)
DropField(obj, f) == [g \in DOMAIN obj \ {f} |-> obj[g]]
StringifyRef(ref) ==
    IF Field(ref, "serviceUrl") = Undef THEN DropField(ref, "serviceUrl") ELSE ref
StringifyEntry_DropsUser(e) ==
    DropField([e EXCEPT !.ref = StringifyRef(e.ref)], "userAadId")

StringifyEntry(e) ==
    LET e1 == [e EXCEPT !.ref = StringifyRef(e.ref)]
    IN  IF Field(e1, "userAadId") = Undef THEN DropField(e1, "userAadId") ELSE e1
\* JSON.parse(JSON.stringify(store, null, 2))
JsonRoundTrip(store) ==
    [shape |-> store.shape,
     references |-> [k \in DOMAIN store.references |-> StringifyEntry(store.references[k])],
     order |-> store.order]

\* A store object: references is the record of entries, order the order in
\* which Object.values / Object.entries enumerate its keys (insertion order).
\* storeCache === null
NullStore == [shape |-> "null", references |-> << >>, order |-> << >>]
\* { references: {} }
EmptyStore == [shape |-> "references", references |-> << >>, order |-> << >>]
\* a parsed document whose top level has no `references` property
ForeignStore == [shape |-> "conversations", references |-> << >>, order |-> << >>]

MissingFile == [kind |-> "missing", data |-> NullStore]
CorruptFile == [kind |-> "corrupt", data |-> NullStore]
JsonFile(store) == [kind |-> "json", data |-> JsonRoundTrip(store)]

\* loadStore(): the value it returns, which is also the new storeCache
LoadStore(cache, f) ==
    IF cache # NullStore THEN cache
    ELSE IF f.kind = "json" THEN f.data
    ELSE EmptyStore

\* store.references is an object (otherwise indexing it throws a TypeError)
HasReferences(store) == store.shape = "references"

\* store.references[conversationId]?.ref ; << >> is undefined
GetRef(store, conversationId) ==
    IF conversationId \in DOMAIN store.references
    THEN << Field(store.references[conversationId], "ref") >>
    ELSE << >>

Newer_Older(entry, best) == entry.updatedAt < best.updatedAt

\* entry.updatedAt > best.updatedAt
Newer(entry, best) == entry.updatedAt > best.updatedAt

\* the loop of getConversationReferenceByUser over Object.values(store.references)
RECURSIVE BestEntry(_, _, _, _)
BestEntry(references, order, userAadId, best) ==
    IF order = << >> THEN best
    ELSE LET entry == references[Head(order)]
         IN  BestEntry(references, Tail(order), userAadId,
                       IF /\ Field(entry, "userAadId") = userAadId
                          /\ (best = << >> \/ Newer(entry, best[1]))
                       THEN << entry >> ELSE best)

\* best?.ref ; << >> is undefined
GetRefByUser(store, userAadId) ==
    LET best == BestEntry(store.references, store.order, userAadId, << >>)
    IN  IF best = << >> THEN << >> ELSE << Field(best[1], "ref") >>

\* Object.entries(store.references).map(([id, entry]) => ({conversationId, updatedAt, userAadId}))
ListRefs(store) ==
    [i \in 1..Len(store.order) |->
        [conversationId |-> store.order[i],
         updatedAt |-> store.references[store.order[i]].updatedAt,
         userAadId |-> Field(store.references[store.order[i]], "userAadId")]]

\* the error an operation rejects with: none, the TypeError of reading a
\* property of undefined, the rejection of mkdir / writeFile
NoErr == "none"
TypeError == "TypeError"
WriteError == "EIO"
\* indexing or enumerating store.references
ReferencesError(store) == IF HasReferences(store) THEN NoErr ELSE TypeError
\* await mkdir(...); await writeFile(...)
WriteOutcome(writeOk) == IF writeOk THEN NoErr ELSE WriteError

\* history record of a store operation: ok = it completed without an error;
\* replaced = a save overwrote an entry with another reference and another user
StoreOp(name, id, err, res, replaced) ==
    [op |-> name, id |-> id, ok |-> err = NoErr, error |-> err, result |-> res,
     replaced |-> replaced]
NoStoreOp == StoreOp("init", "", NoErr, << >>, FALSE)

StoreInit(f) ==
    /\ storeCache = NullStore
    /\ file = f
    /\ storeOps = 0
    /\ storeOp = NoStoreOp
    /\ lastSaved = [k \in ConvIds |-> << >>]

\* { ref, updatedAt: Date.now(), userAadId }
NewEntry(ref, userAadId, t) == [ref |-> ref, updatedAt |-> t, userAadId |-> userAadId]

PutReference_KeepExisting(references, key, entry) ==
    IF key \in DOMAIN references THEN references ELSE MapSet(references, key, entry)

\* store.references[key] = entry
PutReference(references, key, entry) == MapSet(references, key, entry)
\* an assignment to a new key appends it to the enumeration order
PutOrder(order, key) ==
    IF \E i \in 1..Len(order) : order[i] = key THEN order ELSE Append(order, key)
\* delete store.references[conversationId]
DeleteOrder(order, key) == SelectSeq(order, LAMBDA k : k # key)

\* saveStore(store): storeCache = store, then mkdir and writeFile (which may reject)
SaveStore(store, writeOk) ==
    /\ storeCache' = store
    /\ file' = IF writeOk THEN JsonFile(store) ELSE file

CountStoreOp ==
    /\ storeOps < MaxStoreOps
    /\ storeOps' = storeOps + 1

SaveConversationReference(ref, userAadId, writeOk) ==
    /\ CountStoreOp
    /\ LET store == LoadStore(storeCache, file)
           key == ref.conversation.id
           replaced == /\ HasReferences(store)
                       /\ key \in DOMAIN store.references
                       /\ Field(store.references[key], "ref") # StringifyRef(ref)
                       /\ Field(store.references[key], "ref") # ref
                       /\ Field(store.references[key], "userAadId") # userAadId
           entry == NewEntry(ref, userAadId, now)
       IN  IF HasReferences(store)
           THEN /\ SaveStore([store EXCEPT !.references = PutReference(@, key, entry),
                                            !.order = PutOrder(@, key)], writeOk)
                /\ storeOp' = StoreOp("save", key, WriteOutcome(writeOk), << >>, replaced)
                /\ lastSaved' = [lastSaved EXCEPT ![key] = IF writeOk THEN << entry >> ELSE << >>]
           ELSE /\ storeCache' = store
                /\ file' = file
                /\ storeOp' = StoreOp("save", key, TypeError, << >>, FALSE)
                /\ lastSaved' = [lastSaved EXCEPT ![key] = << >>]
    /\ UNCHANGED << now, ticks, lastOp >>
    /\ UNCHANGED tokenVars
    /\ UNCHANGED sendVars
    /\ UNCHANGED ctxVars
    /\ UNCHANGED restVars

GetConversationReference(conversationId) ==
    /\ CountStoreOp
    /\ LET store == LoadStore(storeCache, file)
       IN  /\ storeCache' = store
           /\ storeOp' = StoreOp("get", conversationId, ReferencesError(store),
                                  IF HasReferences(store) THEN GetRef(store, conversationId)
                                  ELSE << >>, FALSE)
    /\ UNCHANGED << file, lastSaved, now, ticks, lastOp >>
    /\ UNCHANGED tokenVars
    /\ UNCHANGED sendVars
    /\ UNCHANGED ctxVars
    /\ UNCHANGED restVars

GetConversationReferenceByUser(userAadId) ==
    /\ CountStoreOp
    /\ LET store == LoadStore(storeCache, file)
       IN  /\ storeCache' = store
           /\ storeOp' = StoreOp("getByUser", userAadId, ReferencesError(store),
                                  IF HasReferences(store) THEN GetRefByUser(store, userAadId)
                                  ELSE << >>, FALSE)
    /\ UNCHANGED << file, lastSaved, now, ticks, lastOp >>
    /\ UNCHANGED tokenVars
    /\ UNCHANGED sendVars
    /\ UNCHANGED ctxVars
    /\ UNCHANGED restVars

ListConversationReferences ==
    /\ CountStoreOp
    /\ LET store == LoadStore(storeCache, file)
       IN  /\ storeCache' = store
           /\ storeOp' = StoreOp("list", "", ReferencesError(store),
                                  IF HasReferences(store) THEN ListRefs(store) ELSE << >>, FALSE)
    /\ UNCHANGED << file, lastSaved, now, ticks, lastOp >>
    /\ UNCHANGED tokenVars
    /\ UNCHANGED sendVars
    /\ UNCHANGED ctxVars
    /\ UNCHANGED restVars

DeleteConversationReference(conversationId, writeOk) ==
    /\ CountStoreOp
    /\ LET store == LoadStore(storeCache, file)
       IN  IF HasReferences(store)
           THEN /\ SaveStore([store EXCEPT !.references =
                                 MapRestrict(@, DOMAIN @ \ {conversationId}),
                                            !.order = DeleteOrder(@, conversationId)], writeOk)
                /\ storeOp' = StoreOp("delete", conversationId, WriteOutcome(writeOk), << >>, FALSE)
           ELSE /\ storeCache' = store
                /\ file' = file
                /\ storeOp' = StoreOp("delete", conversationId, TypeError, << >>, FALSE)
    /\ lastSaved' = [lastSaved EXCEPT ![conversationId] = << >>]
    /\ UNCHANGED << now, ticks, lastOp >>
    /\ UNCHANGED tokenVars
    /\ UNCHANGED sendVars
    /\ UNCHANGED ctxVars
    /\ UNCHANGED restVars

ClearConversationReferences(writeOk) ==
    /\ CountStoreOp
    /\ SaveStore(EmptyStore, writeOk)
    /\ storeOp' = StoreOp("clear", "", WriteOutcome(writeOk), << >>, FALSE)
    /\ lastSaved' = [k \in ConvIds |-> << >>]
    /\ UNCHANGED << now, ticks, lastOp >>
    /\ UNCHANGED tokenVars
    /\ UNCHANGED sendVars
    /\ UNCHANGED ctxVars
    /\ UNCHANGED restVars

\* process restart: the module is loaded again, storeCache starts as null
Restart ==
    /\ CountStoreOp
    /\ storeCache # NullStore
    /\ storeCache' = NullStore
    /\ storeOp' = StoreOp("restart", "", NoErr, << >>, FALSE)
    /\ lastSaved' = [k \in ConvIds |-> << >>]
    /\ UNCHANGED << file, now, ticks, lastOp >>
    /\ UNCHANGED tokenVars
    /\ UNCHANGED sendVars
    /\ UNCHANGED ctxVars
    /\ UNCHANGED restVars

\* ------------------------------------------------------------- initial state
NoConfig == [callbackUrl |-> "", aaInstanceId |-> "", graphScope |-> << >>]
NoCall == [username |-> <<>>, scope |-> <<>>, key |-> <<>>, cfg |-> NoConfig,
           t1 |-> Undefined, t2 |-> Undefined, via |-> None, hit |-> FALSE,
           stale |-> FALSE, cbFailed |-> FALSE]
NoError == [tier |-> None, status |-> 0, body |-> ""]
NoResponse == [kind |-> None, status |-> 0, body |-> "", has_token |-> FALSE, expires_in |-> 0]
\* history record of a step: the operation, its arguments, the response it consumed
Op(name, c, username, scope, resp, removed) ==
    [op |-> name, c |-> c, username |-> username, scope |-> scope, resp |-> resp,
     removed |-> removed]
NoOp == Op("init", None, << >>, << >>, NoResponse, 0)

\* -------------------------------------------------------------- getGraphToken
\* Fall back to the T1/T2/User flow: resolve the config and, when it resolves,
\* fetchGraphTokenT1T2 issues the T1 request before its first await.
StartT1T2(c, rec, sentSoFar, err) ==
    IF ResolveGraphTokenConfig(rec.cfg)
    THEN /\ pc' = [pc EXCEPT ![c] = "T1"]
         /\ sent' = [sent EXCEPT ![c] = Append(sentSoFar, T1Request)]
         /\ result' = [result EXCEPT ![c] = Undefined]
         /\ logged' = [logged EXCEPT ![c] = err]
         /\ raised' = [raised EXCEPT ![c] = NoError]
    ELSE /\ pc' = [pc EXCEPT ![c] = "done"]
         /\ sent' = [sent EXCEPT ![c] = sentSoFar]
         /\ result' = [result EXCEPT ![c] = Undefined]
         /\ logged' = [logged EXCEPT ![c] = err]
         /\ raised' = [raised EXCEPT ![c] = NoError]

StoreAndReturn_NoCache(c, token, via) ==
    /\ result' = [result EXCEPT ![c] = token.accessToken]
    /\ pc' = [pc EXCEPT ![c] = "done"]
    /\ call' = [call EXCEPT ![c].via = via]
    /\ UNCHANGED << tokenCache, cachedBy, sent, logged, raised >>

\* tokenCache.set(cacheKey, token); return token.accessToken
StoreAndReturn(c, token, via) ==
    /\ tokenCache' = MapSet(tokenCache, call[c].key, token)
    /\ cachedBy' = MapSet(cachedBy, call[c].key,
                           [username |-> call[c].username, scope |-> call[c].scope,
                            token |-> token.accessToken])
    /\ result' = [result EXCEPT ![c] = token.accessToken]
    /\ pc' = [pc EXCEPT ![c] = "done"]
    /\ call' = [call EXCEPT ![c].via = via]
    /\ UNCHANGED << sent, logged, raised >>

TierError_NoDetail(tier, resp) == [tier |-> tier, status |-> 0, body |-> ""]

\* new Error(`<tier> token request failed (scope=...): ${status} ${errorText}`)
TierError(tier, resp) == [tier |-> tier, status |-> resp.status, body |-> resp.body]

\* fetchGraphTokenT1T2 threw: getGraphToken catches the error, logs it with
\* log.error and returns undefined ("No token acquired"); nothing is rethrown.
FailT1T2(c, tier, resp) ==
    /\ logged' = [logged EXCEPT ![c] = TierError(tier, resp)]
    /\ raised' = [raised EXCEPT ![c] = NoError]
    /\ result' = [result EXCEPT ![c] = Undefined]
    /\ pc' = [pc EXCEPT ![c] = "done"]
    /\ UNCHANGED << tokenCache, cachedBy, call, sent >>

\* history: the entries cached by an acquire for this (identity, scope)
EntriesFor(username, scope) ==
    { k \in DOMAIN cachedBy : cachedBy[k].username = username /\ cachedBy[k].scope = scope }
\* history: such an entry exists and expires less than five minutes from now
StaleEntryFor(username, scope) ==
    \E k \in EntriesFor(username, scope) : tokenCache[k].expiresAt < now + ExpiryBufferMs

\* getGraphToken up to its first await (cache lookup, then first request)
GetGraphToken(c, username, scope, cfg) ==
    /\ pc[c] \in {"idle", "done"}
    /\ acquires < MaxAcquires
    /\ acquires' = acquires + 1
    /\ LET eff == EffectiveScope(scope, cfg)
           key == CacheKey(username, eff)
           rec == [username |-> username, scope |-> eff, key |-> key, cfg |-> cfg,
                   t1 |-> Undefined, t2 |-> Undefined, via |-> None, hit |-> FALSE,
                   stale |-> StaleEntryFor(username, eff), cbFailed |-> FALSE]
       IN  /\ lastOp' = Op("acquire", c, username, eff, NoResponse, 0)
           /\ IF CacheValid(tokenCache, key, now)
              THEN /\ call' = [call EXCEPT ![c] = [rec EXCEPT !.via = "cache", !.hit = TRUE]]
                   /\ result' = [result EXCEPT ![c] = tokenCache[key].accessToken]
                   /\ pc' = [pc EXCEPT ![c] = "done"]
                   /\ sent' = [sent EXCEPT ![c] = << >>]
                   /\ logged' = [logged EXCEPT ![c] = NoError]
                   /\ raised' = [raised EXCEPT ![c] = NoError]
              ELSE /\ call' = [call EXCEPT ![c] = rec]
                   /\ IF ResolveTokenCallbackConfig(cfg)
                      THEN /\ pc' = [pc EXCEPT ![c] = "callback"]
                           /\ sent' = [sent EXCEPT ![c] = << CallbackRequest(username, eff) >>]
                           /\ result' = [result EXCEPT ![c] = Undefined]
                           /\ logged' = [logged EXCEPT ![c] = NoError]
                           /\ raised' = [raised EXCEPT ![c] = NoError]
                      ELSE StartT1T2(c, rec, << >>, NoError)
    /\ UNCHANGED << tokenCache, cachedBy >>

\* a call of getGraphToken by any of its callers
Acquire(c, username, scope, cfg) ==
    /\ GetGraphToken(c, username, scope, cfg)
    /\ UNCHANGED << now, ticks >>
    /\ UNCHANGED storeVars
    /\ UNCHANGED sendVars
    /\ UNCHANGED ctxVars
    /\ UNCHANGED restVars

\* expiresAt of the token built from the callback's response
CallbackExpiresAt(resp, t) ==
    IF resp.expires_in # 0 THEN t + resp.expires_in * 1000 ELSE t + DefaultLifetimeMs

\* as CallbackResponse, without the try/catch around fetchTokenFromCallback
CallbackResponse_FailsHard(c, resp) ==
    /\ pc[c] = "callback"
    /\ lastOp' = Op("callbackResponse", c, call[c].username, call[c].scope, resp, 0)
    /\ IF resp.kind = "ok"
       THEN StoreAndReturn(c, [accessToken |-> Minted(resp, "tok", acquires),
                               expiresAt |-> CallbackExpiresAt(resp, now)], "callback")
       ELSE /\ pc' = [pc EXCEPT ![c] = "done"]
            /\ result' = [result EXCEPT ![c] = Undefined]
            /\ raised' = [raised EXCEPT ![c] = TierError("callback", resp)]
            /\ call' = [call EXCEPT ![c].cbFailed = TRUE]
            /\ UNCHANGED << tokenCache, cachedBy, sent, logged >>
    /\ UNCHANGED << now, ticks, acquires >>
    /\ UNCHANGED storeVars
    /\ UNCHANGED sendVars
    /\ UNCHANGED ctxVars
    /\ UNCHANGED restVars

\* getGraphToken after the callback's fetch resolved (fetchTokenFromCallback)
CallbackResponse(c, resp) ==
    /\ pc[c] = "callback"
    /\ lastOp' = Op("callbackResponse", c, call[c].username, call[c].scope, resp, 0)
    /\ IF resp.kind = "ok"
       THEN StoreAndReturn(c, [accessToken |-> Minted(resp, "tok", acquires),
                               expiresAt |-> CallbackExpiresAt(resp, now)], "callback")
       ELSE /\ StartT1T2(c, call[c], sent[c], TierError("callback", resp))
            /\ call' = [call EXCEPT ![c].cbFailed = TRUE]
            /\ UNCHANGED << tokenCache, cachedBy >>
    /\ UNCHANGED << now, ticks, acquires >>
    /\ UNCHANGED storeVars
    /\ UNCHANGED sendVars
    /\ UNCHANGED ctxVars
    /\ UNCHANGED restVars

\* as T1Response, without the `if (!t1Response.ok) throw`
T1Response_IgnoresStatus(c, resp) ==
    /\ pc[c] = "T1"
    /\ lastOp' = Op("t1Response", c, call[c].username, call[c].scope, resp, 0)
    /\ call' = [call EXCEPT ![c].t1 = Minted(resp, "t1", acquires)]
    /\ sent' = [sent EXCEPT ![c] = Append(@, T2Request(Minted(resp, "t1", acquires)))]
    /\ pc' = [pc EXCEPT ![c] = "T2"]
    /\ UNCHANGED << tokenCache, cachedBy, result, logged, raised >>
    /\ UNCHANGED << now, ticks, acquires >>
    /\ UNCHANGED storeVars
    /\ UNCHANGED sendVars
    /\ UNCHANGED ctxVars
    /\ UNCHANGED restVars

\* fetchGraphTokenT1T2 after the T1 fetch resolved
T1Response(c, resp) ==
    /\ pc[c] = "T1"
    /\ lastOp' = Op("t1Response", c, call[c].username, call[c].scope, resp, 0)
    /\ IF resp.kind = "ok"
       THEN /\ call' = [call EXCEPT ![c].t1 = Minted(resp, "t1", acquires)]
            /\ sent' = [sent EXCEPT ![c] = Append(@, T2Request(Minted(resp, "t1", acquires)))]
            /\ pc' = [pc EXCEPT ![c] = "T2"]
            /\ UNCHANGED << tokenCache, cachedBy, result, logged, raised >>
       ELSE FailT1T2(c, "T1", resp)
    /\ UNCHANGED << now, ticks, acquires >>
    /\ UNCHANGED storeVars
    /\ UNCHANGED sendVars
    /\ UNCHANGED ctxVars
    /\ UNCHANGED restVars

\* fetchGraphTokenT1T2 after the T2 fetch resolved
T2Response(c, resp) ==
    /\ pc[c] = "T2"
    /\ lastOp' = Op("t2Response", c, call[c].username, call[c].scope, resp, 0)
    /\ IF resp.kind = "ok"
       THEN /\ call' = [call EXCEPT ![c].t2 = Minted(resp, "t2", acquires)]
            /\ sent' = [sent EXCEPT ![c] =
                           Append(@, AgentRequest(call[c].t1, Minted(resp, "t2", acquires),
                                                  call[c].username, call[c].scope))]
            /\ pc' = [pc EXCEPT ![c] = "Agent"]
            /\ UNCHANGED << tokenCache, cachedBy, result, logged, raised >>
       ELSE FailT1T2(c, "T2", resp)
    /\ UNCHANGED << now, ticks, acquires >>
    /\ UNCHANGED storeVars
    /\ UNCHANGED sendVars
    /\ UNCHANGED ctxVars
    /\ UNCHANGED restVars

AgentExpiresAt_Seconds(resp, t) == t + resp.expires_in

\* expiresAt: Date.now() + userData.expires_in * 1000
AgentExpiresAt(resp, t) == t + resp.expires_in * 1000

\* fetchGraphTokenT1T2 after the user FIC fetch resolved, and the rest of getGraphToken
AgentResponse(c, resp) ==
    /\ pc[c] = "Agent"
    /\ lastOp' = Op("agentResponse", c, call[c].username, call[c].scope, resp, 0)
    /\ IF resp.kind = "ok"
       THEN StoreAndReturn(c, [accessToken |-> Minted(resp, "tok", acquires),
                               expiresAt |-> AgentExpiresAt(resp, now)], "t1t2")
       ELSE FailT1T2(c, "Agent", resp)
    /\ UNCHANGED << now, ticks, acquires >>
    /\ UNCHANGED storeVars
    /\ UNCHANGED sendVars
    /\ UNCHANGED ctxVars
    /\ UNCHANGED restVars

\* ------------------------------------------------- invalidateGraphTokenCache
KeysToDelete(cache, username, scope) ==
    IF username # <<>> /\ scope # <<>>
    THEN { CacheKey(username, scope) } \cap DOMAIN cache
    ELSE IF username # <<>>
    THEN { k \in DOMAIN cache : StartsWith(k, UserPrefix(username)) }
    ELSE DOMAIN cache

InvalidateGraphTokenCache(username, scope) ==
    /\ KeysToDelete(tokenCache, username, scope) # {}
    /\ LET keep == DOMAIN tokenCache \ KeysToDelete(tokenCache, username, scope)
       IN  /\ tokenCache' = MapRestrict(tokenCache, keep)
           /\ cachedBy' = MapRestrict(cachedBy, keep)
    /\ lastOp' = Op("invalidate", None, username, scope, NoResponse,
                     Cardinality(KeysToDelete(tokenCache, username, scope)))
    /\ UNCHANGED << now, ticks, pc, call, sent, result, logged, raised, acquires >>
    /\ UNCHANGED storeVars
    /\ UNCHANGED sendVars
    /\ UNCHANGED ctxVars
    /\ UNCHANGED restVars

\* ----------------------------------------------------------------- the clock
Tick(d) ==
    /\ ticks < MaxTicks
    /\ ticks' = ticks + 1
    /\ now' = now + d
    /\ lastOp' = Op("tick", None, << >>, << >>, NoResponse, 0)
    /\ UNCHANGED tokenVars
    /\ UNCHANGED storeVars
    /\ UNCHANGED sendVars
    /\ UNCHANGED ctxVars
    /\ UNCHANGED restVars

\* ------------------------------------------------------------ outbound send
\* (src/src/outbound.ts)
\* TLC strings are atomic: the characters of the target strings the code searches
Chars ==
    ("19:k1" :> << "1", "9", ":", "k", "1" >>) @@ ("k2" :> << "k", "2" >>) @@
    ("u1" :> << "u", "1" >>) @@ ("u@2" :> << "u", "@", "2" >>)
\* str.includes(ch)
Includes(str, ch) == \E i \in 1..Len(Chars[str]) : Chars[str][i] = ch
\* !x for a string or undefined
Falsy(x) == x \in { "", Undef }

\* "5a807f24-c9de-44ee-a3a7-329e88a00ffc/.default"
APX_SCOPE == << "a", "p", "x" >>
\* `https://smba.trafficmanager.net/amer/${tenantId}/`
TeamsServiceUrl(tenantId) ==
    CASE tenantId = << "t", "1" >> -> "https://smba.trafficmanager.net/amer/t1/"

\* String.prototype.trim on a sequence of characters
WhiteSpace == { " ", "\t" }
RECURSIVE TrimStart(_)
TrimStart(str) ==
    IF str # << >> /\ Head(str) \in WhiteSpace THEN TrimStart(Tail(str)) ELSE str
RECURSIVE TrimEnd(_)
TrimEnd(str) ==
    IF str # << >> /\ str[Len(str)] \in WhiteSpace
    THEN TrimEnd(SubSeq(str, 1, Len(str) - 1)) ELSE str
Trim(str) == TrimEnd(TrimStart(str))

\* process.env.A365_APP_ID, A365_APP_PASSWORD, A365_TENANT_ID (<< >> = unset)
Env(appId, appPassword, tenantId) ==
    [appId |-> appId, appPassword |-> appPassword, tenantId |-> tenantId]
NoEnv == Env(<< >>, << >>, << >>)
\* cfg.channels.a365 and the environment; appId, appPassword and tenantId are
\* the raw configured strings (<< >> = unset or empty), the other settings are
\* merged with the environment ("" / << >> = unset in both)
SendConfig(appPassword, agentIdentity, callbackUrl, aaInstanceId) ==
    [appId |-> << "a", "p", "p" >>, appPassword |-> appPassword,
     tenantId |-> << "t", "1" >>,
     agentIdentity |-> agentIdentity, callbackUrl |-> callbackUrl,
     aaInstanceId |-> aaInstanceId, graphScope |-> << >>, env |-> NoEnv]
SendConfigs ==
    { SendConfig(<< "p", "w" >>, << "a" >>, "", "inst"),
      SendConfig(<< "p", "w" >>, << "a" >>, "cb", ""),
      SendConfig(<< >>, << "a" >>, "", "inst"),
      SendConfig(<< "p", "w" >>, << >>, "", "inst"),
      SendConfig(<< " ", "\t" >>, << "a" >>, "", "inst"),
      [SendConfig(<< " " >>, << "a" >>, "", "inst")
           EXCEPT !.env = Env(<< >>, << " ", "e", " " >>, << >>)],
      [SendConfig(<< " ", "p", " " >>, << "a" >>, "", "inst")
           EXCEPT !.env = Env(<< "x" >>, << "e" >>, << "t", "2" >>)],
      [SendConfig(<< "p", "w" >>, << "a" >>, "", "inst")
           EXCEPT !.tenantId = << >>, !.env = Env(<< >>, << >>, << "\t", "t", "1" >>)],
      [SendConfig(<< "p", "w" >>, << "a" >>, "", "inst")
           EXCEPT !.tenantId = << " " >>, !.env = Env(<< >>, << "e" >>, << " " >>)],
      [SendConfig(<< "p", "w" >>, << "a" >>, "", "inst")
           EXCEPT !.appId = << >>, !.env = Env(<< >>, << "e" >>, << "t", "1" >>)] }
\* the part of the configuration getGraphToken reads
TokenConfig(cfg) ==
    [callbackUrl |-> cfg.callbackUrl, aaInstanceId |-> cfg.aaInstanceId,
     graphScope |-> cfg.graphScope]
ResolveA365Credentials_ConfigOnly(cfg) ==
    IF cfg.appId = << >> \/ cfg.appPassword = << >> \/ cfg.tenantId = << >> THEN << >>
    ELSE << [appId |-> cfg.appId, appPassword |-> cfg.appPassword, tenantId |-> cfg.tenantId] >>

\* cfg?.x?.trim() || process.env.X?.trim()
Setting(cfgValue, envValue) ==
    IF Trim(cfgValue) # << >> THEN Trim(cfgValue) ELSE Trim(envValue)
\* resolveA365Credentials: << >> is undefined
ResolveA365Credentials(cfg) ==
    LET appId == Setting(cfg.appId, cfg.env.appId)
        appPassword == Setting(cfg.appPassword, cfg.env.appPassword)
        tenantId == Setting(cfg.tenantId, cfg.env.tenantId)
    IN  IF appId = << >> \/ appPassword = << >> \/ tenantId = << >> THEN << >>
        ELSE << [appId |-> appId, appPassword |-> appPassword, tenantId |-> tenantId] >>

\* params of sendMessageA365 / sendAdaptiveCardA365: to, serviceUrl?, metadata?
NoMetadata == [conversationId |-> Undef, serviceUrl |-> Undef]
SendParam(to, serviceUrl, metadata) == [to |-> to, serviceUrl |-> serviceUrl, metadata |-> metadata]
SendParams ==
    { SendParam("k2", Undef, NoMetadata), SendParam("u1", Undef, NoMetadata),
      SendParam("u@2", Undef, NoMetadata), SendParam("19:k1", Undef, NoMetadata),
      SendParam("", Undef, NoMetadata), SendParam("k2", "svc", NoMetadata),
      SendParam("", Undef, [conversationId |-> "k2", serviceUrl |-> "msvc"]) }
SendKinds == { "text", "card" }

\* a store file written by earlier runs: a direct conversation of user u1 and
\* a group conversation, saved without a service URL, of user u@2
StoredBefore ==
    [shape |-> "references",
     references |-> ("k2" :> NewEntry(Ref("k2", FALSE, "svc"), "u1", 0)) @@
                    ("19:k1" :> NewEntry(Ref("19:k1", TRUE, Undef), "u@2", 0)),
     order |-> << "k2", "19:k1" >>]
SendFiles == { MissingFile, JsonFile(StoredBefore), JsonFile(ForeignStore) }

\* the error texts of the send functions
ErrCredentials == "A365 credentials not configured"
ErrIdentity == "Agent identity not configured. Set AGENT_IDENTITY env var."
ErrTarget == "Missing service URL or conversation ID. User must message the bot first."
ErrToken(kind) ==
    IF kind = "text"
    THEN "Failed to acquire APX token. Check agent identity and T1/T2 configuration."
    ELSE "Failed to acquire APX token."

\* outcomes of client.sendToConversation: resolved with an id, rejected with an
\* HTTP error carrying response.data, rejected with a plain Error
TransportOk == { [kind |-> "ok", id |-> "m1", data |-> Undef, message |-> ""] }
TransportErrors ==
    { [kind |-> "http", id |-> "", data |-> "Forbidden",
       message |-> "Request failed with status code 403"],
      [kind |-> "throw", id |-> "", data |-> Undef, message |-> "ECONNRESET"] }
\* JSON.stringify of a string: the string in double quotes
JsonText(data) == CASE data = "Forbidden" -> "\"Forbidden\""
\* axErr.response?.data ? JSON.stringify(axErr.response.data) : err.message
ErrorDetail(resp) == IF ~Falsy(resp.data) THEN JsonText(resp.data) ELSE resp.message

\* what the send returned: state "returned" with {ok, error?, messageId?,
\* conversationId?}, or "threw" when the returned promise rejected
NoResult ==
    [state |-> "pending", ok |-> FALSE, error |-> "", messageId |-> "", conversationId |-> ""]
Failed(error) ==
    [state |-> "returned", ok |-> FALSE, error |-> error, messageId |-> "", conversationId |-> ""]
Threw(error) ==
    [state |-> "threw", ok |-> FALSE, error |-> error, messageId |-> "", conversationId |-> ""]
Delivered(messageId, conversationId) ==
    [state |-> "returned", ok |-> TRUE, error |-> "", messageId |-> messageId,
     conversationId |-> conversationId]

NoSend ==
    [kind |-> None, to |-> "", serviceUrl |-> Undef, metadata |-> NoMetadata,
     cfg |-> SendConfig(<< >>, << >>, "", ""), conversationId |-> Undef,
     lookedUp |-> FALSE, byId |-> << >>, triedUser |-> FALSE, storedRef |-> << >>,
     resolved |-> << >>, acquired |-> FALSE, token |-> Undefined]

SendInit ==
    /\ spc = "idle"
    /\ snd = NoSend
    /\ sendResult = NoResult
    /\ transport = << >>
    /\ sends = 0

ResolvedOrNull_Unchecked(conversationId, serviceUrl) ==
    << [conversationId |-> conversationId, serviceUrl |-> serviceUrl] >>

\* if (!conversationServiceUrl || !conversationId) return null; << >> is null
ResolvedOrNull(conversationId, serviceUrl) ==
    IF Falsy(serviceUrl) \/ Falsy(conversationId) THEN << >>
    ELSE << [conversationId |-> conversationId, serviceUrl |-> serviceUrl] >>

\* the end of resolveConversation (tenant fallback, null check) and the send
\* function up to the first await of getGraphToken
FinishResolve(rec, conversationId, serviceUrl) ==
    LET tenantId == ResolveA365Credentials(rec.cfg)[1].tenantId
        withTenant == IF Falsy(serviceUrl) /\ tenantId # << >>
                      THEN TeamsServiceUrl(tenantId) ELSE serviceUrl
        resolved == ResolvedOrNull(conversationId, withTenant)
    IN  IF resolved = << >>
        THEN /\ spc' = "done"
             /\ snd' = rec
             /\ sendResult' = Failed(ErrTarget)
             /\ UNCHANGED tokenVars
             /\ UNCHANGED lastOp
        ELSE /\ spc' = "token"
             /\ snd' = [rec EXCEPT !.resolved = resolved, !.acquired = TRUE]
             /\ sendResult' = NoResult
             /\ GetGraphToken("c1", rec.cfg.agentIdentity, APX_SCOPE, TokenConfig(rec.cfg))

\* sendMessageA365 / sendAdaptiveCardA365 up to the first await that yields
SendStart(kind, params, cfg) ==
    /\ spc \in { "idle", "done" }
    /\ sends < MaxSends
    /\ sends' = sends + 1
    /\ transport' = << >>
    /\ LET conversationId == IF ~Falsy(params.to) THEN params.to
                             ELSE params.metadata.conversationId
           serviceUrl == IF ~Falsy(params.serviceUrl) THEN params.serviceUrl
                         ELSE params.metadata.serviceUrl
           rec == [NoSend EXCEPT !.kind = kind, !.to = params.to,
                                 !.serviceUrl = params.serviceUrl,
                                 !.metadata = params.metadata, !.cfg = cfg,
                                 !.conversationId = conversationId]
       IN  IF ResolveA365Credentials(cfg) = << >>
           THEN /\ spc' = "done"
                /\ snd' = rec
                /\ sendResult' = Failed(ErrCredentials)
                /\ UNCHANGED tokenVars
                /\ UNCHANGED lastOp
           ELSE IF cfg.agentIdentity = << >>
           THEN /\ spc' = "done"
                /\ snd' = rec
                /\ sendResult' = Failed(ErrIdentity)
                /\ UNCHANGED tokenVars
                /\ UNCHANGED lastOp
           ELSE IF Falsy(serviceUrl) /\ ~Falsy(conversationId)
           THEN /\ spc' = "lookup"
                /\ snd' = rec
                /\ sendResult' = NoResult
                /\ UNCHANGED tokenVars
                /\ UNCHANGED lastOp
           ELSE FinishResolve(rec, conversationId, serviceUrl)
    /\ UNCHANGED << now, ticks >>
    /\ UNCHANGED storeVars
    /\ UNCHANGED ctxVars
    /\ UNCHANGED restVars

\* resolveConversation: the lookups in the conversation store and what follows
SendLookup ==
    /\ spc = "lookup"
    /\ LET store == LoadStore(storeCache, file)
           conversationId == snd.conversationId
       IN  /\ storeCache' = store
           /\ IF ~HasReferences(store)
              THEN /\ spc' = "done"
                   /\ snd' = [snd EXCEPT !.lookedUp = TRUE]
                   /\ sendResult' = Threw(TypeError)
                   /\ UNCHANGED tokenVars
                   /\ UNCHANGED lastOp
              ELSE LET byId == GetRef(store, conversationId)
                       triedUser == /\ byId = << >>
                                    /\ ~Includes(conversationId, ":")
                                    /\ ~Includes(conversationId, "@")
                       storedRef == IF triedUser THEN GetRefByUser(store, conversationId)
                                    ELSE byId
                       rec == [snd EXCEPT !.lookedUp = TRUE, !.byId = byId,
                                          !.triedUser = triedUser, !.storedRef = storedRef]
                   IN  IF storedRef # << >>
                       THEN FinishResolve(rec, Field(storedRef[1], "conversationId"),
                                          Field(storedRef[1], "serviceUrl"))
                       ELSE FinishResolve(rec, conversationId, Undef)
    /\ UNCHANGED << sends, transport, now, ticks >>
    /\ UNCHANGED << file, storeOps, storeOp, lastSaved >>
    /\ UNCHANGED ctxVars
    /\ UNCHANGED restVars

TokenAcquired_Always(token) == TRUE

\* if (!token) return { ok: false, ... }
TokenAcquired(token) == token # Undefined

\* ConnectorClient.createClientWithToken(serviceUrl, token).sendToConversation(conversationId, activity)
TransportRequest(resolved, token, kind) ==
    [conversationId |-> resolved.conversationId, serviceUrl |-> resolved.serviceUrl,
     token |-> token, activity |-> kind]

\* the send function after getGraphToken returned
SendAfterToken ==
    /\ spc = "token"
    /\ pc["c1"] = "done"
    /\ IF TokenAcquired(result["c1"])
       THEN /\ spc' = "transport"
            /\ snd' = [snd EXCEPT !.token = result["c1"]]
            /\ transport' = Append(transport,
                                   TransportRequest(snd.resolved[1], result["c1"], snd.kind))
            /\ UNCHANGED sendResult
       ELSE /\ spc' = "done"
            /\ sendResult' = Failed(ErrToken(snd.kind))
            /\ UNCHANGED << snd, transport >>
    /\ UNCHANGED << sends, now, ticks, lastOp >>
    /\ UNCHANGED tokenVars
    /\ UNCHANGED storeVars
    /\ UNCHANGED ctxVars
    /\ UNCHANGED restVars

\* the send function after sendToConversation settled
TransportResponse(resp) ==
    /\ spc = "transport"
    /\ spc' = "done"
    /\ sendResult' = IF resp.kind = "ok"
                     THEN Delivered(resp.id, snd.resolved[1].conversationId)
                     ELSE Failed(ErrorDetail(resp))
    /\ UNCHANGED << snd, transport, sends, now, ticks, lastOp >>
    /\ UNCHANGED tokenVars
    /\ UNCHANGED storeVars
    /\ UNCHANGED ctxVars
    /\ UNCHANGED restVars

\* ------------------------------------------------ request-scoped tool context
\* (src/src/graph-tools.ts, src/unnamed/part_002)
Requests == { "r1", "r2" }
\* getStore() outside of every run(): undefined
NoContext ==
    [agentIdentity |-> Undef, currentUserEmail |-> Undef, currentUserAadId |-> Undef,
     currentUserRole |-> Undef]
\* the context the message handler builds from the activity's metadata
GraphToolContext(userEmail, userAadId, userRole) ==
    [agentIdentity |-> "agent@x", currentUserEmail |-> userEmail,
     currentUserAadId |-> userAadId, currentUserRole |-> userRole]
GraphToolContexts ==
    { GraphToolContext("owner@x", "u1", "Owner"), GraphToolContext("u@2", "u2", "Requester") }

CtxInit ==
    /\ rpc = [r \in Requests |-> "idle"]
    /\ reqCtx = [r \in Requests |-> NoContext]
    /\ alsStore = [r \in Requests |-> NoContext]
    /\ seen = [r \in Requests |-> << >>]
    /\ lastRun = NoContext
    /\ lastSet = NoContext
    /\ ctxOp = [op |-> "init", r |-> None]
    /\ ctxSteps = 0

CountCtxStep ==
    /\ ctxSteps < MaxCtxSteps
    /\ ctxSteps' = ctxSteps + 1

GetGraphToolContext_Global(r) == lastRun

\* toolContextStorage.getStore(), called in the async call chain of request r
GetGraphToolContext(r) == alsStore[r]

\* the message handler: runWithGraphToolContext(ctx, async () => { ... }), i.e.
\* toolContextStorage.run(ctx, fn): fn and every continuation of its call
\* chain run with ctx as the store
InboundMessage(r, ctx) ==
    /\ CountCtxStep
    /\ rpc[r] \in { "idle", "done" }
    /\ rpc' = [rpc EXCEPT ![r] = "running"]
    /\ reqCtx' = [reqCtx EXCEPT ![r] = ctx]
    /\ alsStore' = [alsStore EXCEPT ![r] = ctx]
    /\ seen' = [seen EXCEPT ![r] = << >>]
    /\ lastRun' = ctx
    /\ ctxOp' = [op |-> "run", r |-> r]
    /\ UNCHANGED << lastSet, now, ticks, lastOp >>
    /\ UNCHANGED tokenVars
    /\ UNCHANGED storeVars
    /\ UNCHANGED sendVars
    /\ UNCHANGED restVars

\* a tool of request r resumes after an await and reads the context
\* (graphRequest, sendGif: const ctx = getGraphToolContext())
ToolRead(r) ==
    /\ CountCtxStep
    /\ rpc[r] = "running"
    /\ seen' = [seen EXCEPT ![r] = Append(@, GetGraphToolContext(r))]
    /\ ctxOp' = [op |-> "read", r |-> r]
    /\ UNCHANGED << rpc, reqCtx, alsStore, lastRun, lastSet, now, ticks, lastOp >>
    /\ UNCHANGED tokenVars
    /\ UNCHANGED storeVars
    /\ UNCHANGED sendVars
    /\ UNCHANGED restVars

\* the deprecated setGraphToolContext(ctx), called from the chain of request r:
\* it logs a warning and sets nothing
SetGraphToolContext(r, ctx) ==
    /\ CountCtxStep
    /\ rpc[r] = "running"
    /\ lastSet' = ctx
    /\ ctxOp' = [op |-> "set", r |-> r]
    /\ UNCHANGED << rpc, reqCtx, alsStore, seen, lastRun, now, ticks, lastOp >>
    /\ UNCHANGED tokenVars
    /\ UNCHANGED storeVars
    /\ UNCHANGED sendVars
    /\ UNCHANGED restVars

\* the handler's callback settled: run() is over for this request
HandlerDone(r) ==
    /\ CountCtxStep
    /\ rpc[r] = "running"
    /\ rpc' = [rpc EXCEPT ![r] = "done"]
    /\ alsStore' = [alsStore EXCEPT ![r] = NoContext]
    /\ ctxOp' = [op |-> "done", r |-> r]
    /\ UNCHANGED << reqCtx, seen, lastRun, lastSet, now, ticks, lastOp >>
    /\ UNCHANGED tokenVars
    /\ UNCHANGED storeVars
    /\ UNCHANGED sendVars
    /\ UNCHANGED restVars

\* ------------------------------------------- another writer of the store file
\* no write by another process so far
NoWrite == [at |-> -1, file |-> MissingFile]
ExtInit == written = NoWrite

\* the documents another process (a second gateway on the same home directory,
\* an operator's script) leaves in ~/.openclaw/a365-conversations.json
ExternalStores ==
    { [shape |-> "references",
       references |-> ("k2" :> NewEntry(Ref("k2", FALSE, "svc"), "u1", 0)),
       order |-> << "k2" >>],
      EmptyStore }
\* a clock advance longer than the read cache may stay stale (tens of seconds)
StaleTickSteps == { 60000 }

\* writeFile by the other process
ExternalWrite(store) ==
    /\ written.at < 0
    /\ file # JsonFile(store)
    /\ file' = JsonFile(store)
    /\ written' = [at |-> now, file |-> JsonFile(store)]
    /\ UNCHANGED << storeCache, storeOps, storeOp, lastSaved >>
    /\ UNCHANGED << now, ticks, lastOp >>
    /\ UNCHANGED tokenVars
    /\ UNCHANGED sendVars
    /\ UNCHANGED ctxVars
    /\ UNCHANGED targetVars
    /\ UNCHANGED handlerVars
    /\ UNCHANGED asyncVars

\* ------------------------------------------------------- target resolution
\* (src/src/outbound.ts, a365Outbound.resolveTarget)
\* const prefixes = ["user:", "conversation:", "a365:", "a365:group:"]
A365Prefixes ==
    << << "u", "s", "e", "r", ":" >>,
       << "c", "o", "n", "v", "e", "r", "s", "a", "t", "i", "o", "n", ":" >>,
       << "a", "3", "6", "5", ":" >>,
       << "a", "3", "6", "5", ":", "g", "r", "o", "u", "p", ":" >> >>

\* normalizeA365Target(to): << >> is undefined, << str >> a string; the loop
\* returns at the first prefix, in array order, the trimmed string starts with
NormalizeA365Target(to) ==
    IF to = << >> \/ to[1] = << >> \/ Trim(to[1]) = << >> THEN << >>
    ELSE LET trimmed == Trim(to[1])
             matching == { i \in 1..Len(A365Prefixes) : StartsWith(trimmed, A365Prefixes[i]) }
             first == CHOOSE i \in matching : \A j \in matching : i <= j
         IN  IF matching = {} THEN << trimmed >>
             ELSE << SubSeq(trimmed, Len(A365Prefixes[first]) + 1, Len(trimmed)) >>

\* the `to` arguments: undefined, or white space, a prefix (or none), an
\* identifier (or none) and white space
TargetIds == { << >>, << "x" >>, << "1", "9", ":", "k" >>, << "g", "r", "o", "u", "p", ":" >> }
TargetArgs ==
    LET pads == { << >>, << " " >> }
    IN  { << >> } \cup
        { << l \o p \o x \o r >> :
            l \in pads, r \in pads, x \in TargetIds,
            p \in { << >> } \cup { A365Prefixes[i] : i \in 1..Len(A365Prefixes) } }
\* the allowFrom lists: none, one entry with a prefix, a blank entry first
AllowFromArgs ==
    { << >>, << << " ", "u", "s", "e", "r", ":", "y" >> >>,
      << << " " >>, << "z" >> >>, << << "u", "s", "e", "r", ":" >> >> }

\* no call yet
TargetInit ==
    target = [called |-> FALSE, to |-> << >>, allowFrom |-> << >>, ok |-> FALSE,
              result |-> << >>]

\* resolveTarget({ to, allowFrom })
ResolveTarget(to, allowFrom) ==
    /\ LET normalized == NormalizeA365Target(to)
           allowList == SelectSeq([i \in 1..Len(allowFrom) |-> Trim(allowFrom[i])],
                                  LAMBDA e : e # << >>)
           fallback == IF allowList # << >> THEN NormalizeA365Target(<< allowList[1] >>)
                       ELSE << >>
           truthy(v) == v # << >> /\ v[1] # << >>
       IN  target' = [called |-> TRUE, to |-> to, allowFrom |-> allowFrom,
                      ok |-> truthy(normalized) \/ truthy(fallback),
                      result |-> IF truthy(normalized) THEN normalized
                                 ELSE IF truthy(fallback) THEN fallback ELSE << >>]
    /\ UNCHANGED << now, ticks, lastOp >>
    /\ UNCHANGED tokenVars
    /\ UNCHANGED storeVars
    /\ UNCHANGED sendVars
    /\ UNCHANGED ctxVars
    /\ UNCHANGED extVars
    /\ UNCHANGED handlerVars
    /\ UNCHANGED asyncVars

\* ------------------------------------------------ inbound message handler
\* (src/unnamed/part_002, the onActivity callback from the dispatcher on)
\* pc: "idle" before the message, "dispatch" while dispatchReplyFromConfig
\* runs, "wait" in Promise.all(pendingSends), "update" in updateLastRoute,
\* "error" in the catch block's sendActivity, "returned" after the callback.
\* pendingSends: one record per sendReply promise, in push order.
HandlerInit ==
    handler = [pc |-> "idle", pendingSends |-> << >>, replyCount |-> 0, failed |-> FALSE]

\* the other variables of a handler step
HandlerFrame ==
    /\ UNCHANGED << now, ticks, lastOp >>
    /\ UNCHANGED tokenVars
    /\ UNCHANGED storeVars
    /\ UNCHANGED sendVars
    /\ UNCHANGED ctxVars
    /\ UNCHANGED extVars
    /\ UNCHANGED targetVars
    /\ UNCHANGED asyncVars

\* the handler reaches `await dispatchReplyFromConfig(...)`
Dispatch ==
    /\ handler.pc = "idle"
    /\ handler' = [handler EXCEPT !.pc = "dispatch"]
    /\ HandlerFrame

\* dispatcher.sendToolResult / sendBlockReply / sendFinalReply: a payload with
\* text starts sendReply and pushes its promise; one without text is dropped
QueueReply(kind, hasText) ==
    /\ handler.pc = "dispatch"
    /\ hasText
    /\ Len(handler.pendingSends) < MaxReplies
    /\ handler' = [handler EXCEPT
           !.pendingSends = Append(@, [kind |-> kind, state |-> "pending"])]
    /\ HandlerFrame

\* context.sendActivity(replyText) of one sendReply resolves or rejects;
\* sendReply catches the rejection, so its promise resolves either way
ReplySettles(i, ok) ==
    /\ handler.pc # "idle"
    /\ i \in 1..Len(handler.pendingSends)
    /\ handler.pendingSends[i].state = "pending"
    /\ handler' = [handler EXCEPT
           !.pendingSends[i].state = IF ok THEN "sent" ELSE "failed",
           !.replyCount = IF ok THEN @ + 1 ELSE @]
    /\ HandlerFrame

\* dispatchReplyFromConfig resolves (the handler goes on to Promise.all) or
\* rejects (the catch block logs and sends the error message)
DispatchSettles(ok) ==
    /\ handler.pc = "dispatch"
    /\ handler' = [handler EXCEPT !.pc = IF ok THEN "wait" ELSE "error",
                                  !.failed = ~ok]
    /\ HandlerFrame

\* await Promise.all(pendingSends) resolves once every pushed promise has
AwaitPendingSends ==
    /\ handler.pc = "wait"
    /\ \A i \in 1..Len(handler.pendingSends) : handler.pendingSends[i].state # "pending"
    /\ handler' = [handler EXCEPT !.pc = "update"]
    /\ HandlerFrame

\* updateLastRoute settles (its own try/catch logs a failure) or, in the
\* catch block, the error message's sendActivity settles: the callback returns
HandlerReturns ==
    /\ handler.pc \in { "update", "error" }
    /\ handler' = [handler EXCEPT !.pc = "returned"]
    /\ HandlerFrame

\* ------------------------------------- concurrent saveConversationReference
\* (src/src/conversation-store.ts, the calls split at their awaits)
\* Two handler invocations save the references of two conversations.  A store
\* object is named by the call whose loadStore parsed it ("o0": the object a
\* call before them left in storeCache).
Savers == { "s1", "s2" }
SaverRef == ("s1" :> Ref("19:k1", TRUE, "svc")) @@ ("s2" :> Ref("k2", FALSE, "svc"))
\* pc: "idle", "reading" (await readFile), "loaded" (await loadStore()),
\* "mkdir" (await mkdir), "writing" (await writeFile), "done"
AsyncInit ==
    /\ objs = [o \in Savers \cup {"o0"} |-> NullStore]
    /\ cacheObj = "null"
    /\ saver = [p \in Savers |-> [pc |-> "idle", store |-> "null", doc |-> MissingFile]]
RestInit == ExtInit /\ TargetInit /\ HandlerInit /\ AsyncInit

\* the other variables of a step of a concurrent save
AsyncFrame ==
    /\ UNCHANGED << storeOps, storeOp, lastSaved >>
    /\ UNCHANGED << now, ticks, lastOp >>
    /\ UNCHANGED tokenVars
    /\ UNCHANGED sendVars
    /\ UNCHANGED ctxVars
    /\ UNCHANGED extVars
    /\ UNCHANGED targetVars
    /\ UNCHANGED handlerVars

\* saveConversationReference is called; loadStore runs to its first await:
\* `if (storeCache) return storeCache`, else readFile is started
SaveCall(p) ==
    /\ saver[p].pc = "idle"
    /\ saver' = [saver EXCEPT ![p].pc = IF cacheObj # "null" THEN "loaded" ELSE "reading",
                              ![p].store = cacheObj]
    /\ UNCHANGED << objs, cacheObj, storeCache, file >>
    /\ AsyncFrame

\* readFile settles: storeCache = the parsed document, or { references: {} }
\* in the catch block; loadStore returns that new object
ReadSettles(p) ==
    /\ saver[p].pc = "reading"
    /\ objs' = [objs EXCEPT ![p] = LoadStore(NullStore, file)]
    /\ cacheObj' = p
    /\ storeCache' = LoadStore(NullStore, file)
    /\ saver' = [saver EXCEPT ![p].pc = "loaded", ![p].store = p]
    /\ UNCHANGED file
    /\ AsyncFrame

\* after `await loadStore()`: store.references[key] = {...}; saveStore(store)
\* sets storeCache = store and starts mkdir
PutAndSaveStore(p) ==
    /\ saver[p].pc = "loaded"
    /\ HasReferences(objs[saver[p].store])
    /\ LET key == SaverRef[p].conversation.id
           store == [objs[saver[p].store] EXCEPT
                        !.references = PutReference(@, key, NewEntry(SaverRef[p], Undef, now)),
                        !.order = PutOrder(@, key)]
       IN  /\ objs' = [objs EXCEPT ![saver[p].store] = store]
           /\ cacheObj' = saver[p].store
           /\ storeCache' = store
    /\ saver' = [saver EXCEPT ![p].pc = "mkdir"]
    /\ UNCHANGED file
    /\ AsyncFrame

\* mkdir settles: writeFile(STORE_PATH, JSON.stringify(store, null, 2)) is
\* called with the text of the store object as it is now
MkdirSettles(p) ==
    /\ saver[p].pc = "mkdir"
    /\ saver' = [saver EXCEPT ![p].pc = "writing", ![p].doc = JsonFile(objs[saver[p].store])]
    /\ UNCHANGED << objs, cacheObj, storeCache, file >>
    /\ AsyncFrame

\* writeFile settles: the file holds the text it was given
WriteSettles(p) ==
    /\ saver[p].pc = "writing"
    /\ file' = saver[p].doc
    /\ saver' = [saver EXCEPT ![p].pc = "done"]
    /\ UNCHANGED << objs, cacheObj, storeCache >>
    /\ AsyncFrame

\* ------------------------------------------------------------- initial state
Init ==
    /\ now = 0
    /\ ticks = 0
    /\ tokenCache = << >>
    /\ cachedBy = << >>
    /\ pc = [c \in Calls |-> "idle"]
    /\ call = [c \in Calls |-> NoCall]
    /\ sent = [c \in Calls |-> << >>]
    /\ result = [c \in Calls |-> Undefined]
    /\ logged = [c \in Calls |-> NoError]
    /\ raised = [c \in Calls |-> NoError]
    /\ acquires = 0
    /\ lastOp = NoOp
    /\ StoreInit(MissingFile)
    /\ SendInit
    /\ CtxInit
    /\ RestInit

vars == << now, ticks, tokenCache, cachedBy, pc, call, sent, result, logged, raised, acquires,
          lastOp,
          storeCache, file, storeOps, storeOp, lastSaved,
          spc, snd, sendResult, transport, sends,
          rpc, reqCtx, alsStore, seen, lastRun, lastSet, ctxOp, ctxSteps,
          written, target, handler, objs, cacheObj, saver >>

Next ==
    \/ \E c \in Calls, u \in Identities, s \in ScopeArgs, cfg \in Configs : Acquire(c, u, s, cfg)
    \/ \E c \in Calls, r \in CallbackOk \cup HttpErrors \cup NetworkErrors : CallbackResponse(c, r)
    \/ \E c \in Calls, r \in TierOk \cup HttpErrors : T1Response(c, r)
    \/ \E c \in Calls, r \in TierOk \cup HttpErrors : T2Response(c, r)
    \/ \E c \in Calls, r \in AgentOk \cup HttpErrors : AgentResponse(c, r)
    \/ \E u \in Identities \cup {<<>>}, s \in ScopeArgs : InvalidateGraphTokenCache(u, s)
    \/ \E d \in TickSteps : Tick(d)

Spec == Init /\ [][Next]_vars

\* The store, started on any of the files the process can find at start-up.
InitialFiles == { MissingFile, CorruptFile, JsonFile(EmptyStore), JsonFile(ForeignStore) }

InitStore ==
    /\ now = 0
    /\ ticks = 0
    /\ tokenCache = << >>
    /\ cachedBy = << >>
    /\ pc = [c \in Calls |-> "idle"]
    /\ call = [c \in Calls |-> NoCall]
    /\ sent = [c \in Calls |-> << >>]
    /\ result = [c \in Calls |-> Undefined]
    /\ logged = [c \in Calls |-> NoError]
    /\ raised = [c \in Calls |-> NoError]
    /\ acquires = 0
    /\ lastOp = NoOp
    /\ \E f \in InitialFiles : StoreInit(f)
    /\ SendInit
    /\ CtxInit
    /\ RestInit

NextStore ==
    \/ \E r \in Refs, u \in UserAadIds, w \in BOOLEAN : SaveConversationReference(r, u, w)
    \/ \E k \in ConvIds : GetConversationReference(k)
    \/ \E u \in UserAadIds \ {Undef} : GetConversationReferenceByUser(u)
    \/ ListConversationReferences
    \/ \E k \in ConvIds, w \in BOOLEAN : DeleteConversationReference(k, w)
    \/ \E w \in BOOLEAN : ClearConversationReferences(w)
    \/ Restart
    \/ \E d \in TickSteps : Tick(d)

SpecStore == InitStore /\ [][NextStore]_vars

\* the token state of a process that has acquired nothing yet
TokenInit ==
    /\ now = 0
    /\ ticks = 0
    /\ tokenCache = << >>
    /\ cachedBy = << >>
    /\ pc = [c \in Calls |-> "idle"]
    /\ call = [c \in Calls |-> NoCall]
    /\ sent = [c \in Calls |-> << >>]
    /\ result = [c \in Calls |-> Undefined]
    /\ logged = [c \in Calls |-> NoError]
    /\ raised = [c \in Calls |-> NoError]
    /\ acquires = 0
    /\ lastOp = NoOp

\* Outbound sends, with the token acquisition they start and the store they read.
InitSend ==
    /\ TokenInit
    /\ \E f \in SendFiles : StoreInit(f)
    /\ SendInit
    /\ CtxInit
    /\ RestInit

NextSend ==
    \/ \E k \in SendKinds, p \in SendParams, cfg \in SendConfigs : SendStart(k, p, cfg)
    \/ SendLookup
    \/ \E c \in Calls, r \in CallbackOk \cup HttpErrors \cup NetworkErrors : CallbackResponse(c, r)
    \/ \E c \in Calls, r \in TierOk \cup HttpErrors : T1Response(c, r)
    \/ \E c \in Calls, r \in TierOk \cup HttpErrors : T2Response(c, r)
    \/ \E c \in Calls, r \in AgentOk \cup HttpErrors : AgentResponse(c, r)
    \/ SendAfterToken
    \/ \E r \in TransportOk \cup TransportErrors : TransportResponse(r)

SpecSend == InitSend /\ [][NextSend]_vars

\* The store of this process next to another process that writes the file.
NextStoreShared ==
    \/ \E r \in Refs, u \in {"u1"}, w \in BOOLEAN : SaveConversationReference(r, u, w)
    \/ \E k \in ConvIds : GetConversationReference(k)
    \/ \E u \in {"u1"} : GetConversationReferenceByUser(u)
    \/ ListConversationReferences
    \/ \E store \in ExternalStores : ExternalWrite(store)
    \/ \E d \in StaleTickSteps : Tick(d)

SpecStoreShared == InitStore /\ [][NextStoreShared]_vars

\* A process that has just started, without a store file.
InitCtx ==
    /\ TokenInit
    /\ StoreInit(MissingFile)
    /\ SendInit
    /\ CtxInit
    /\ RestInit

\* Outbound text sends of a configured agent next to the message handler, which
\* saves the reference of every inbound activity; the store starts without a file.
NextSendSaved ==
    \/ \E r \in Refs : SaveConversationReference(r, "u1", TRUE)
    \/ \E p \in SendParams :
           SendStart("text", p, SendConfig(<< "p", "w" >>, << "a" >>, "", "inst"))
    \/ SendLookup
    \/ \E c \in Calls, r \in TierOk \cup HttpErrors : T1Response(c, r)
    \/ \E c \in Calls, r \in TierOk \cup HttpErrors : T2Response(c, r)
    \/ \E c \in Calls, r \in AgentOk \cup HttpErrors : AgentResponse(c, r)
    \/ SendAfterToken
    \/ \E r \in TransportOk \cup TransportErrors : TransportResponse(r)

SpecSendSaved ==
    InitCtx /\ [][NextSendSaved]_vars

\* Target resolution of the outbound adapter.
NextTarget == \E to \in TargetArgs, allowFrom \in AllowFromArgs : ResolveTarget(to, allowFrom)

SpecTarget ==
    InitCtx /\ [][NextTarget]_vars

\* One inbound message through the handler's dispatch and reply sends.
ReplyKinds == { "tool", "block", "final" }
NextHandler ==
    \/ Dispatch
    \/ \E kind \in ReplyKinds, hasText \in BOOLEAN : QueueReply(kind, hasText)
    \/ \E i \in 1..MaxReplies, ok \in BOOLEAN : ReplySettles(i, ok)
    \/ \E ok \in BOOLEAN : DispatchSettles(ok)
    \/ AwaitPendingSends
    \/ HandlerReturns

SpecHandler ==
    InitCtx /\ [][NextHandler]_vars

\* Two concurrent saves, started with the store not yet loaded or already
\* loaded by an earlier call, on a missing file or on one with a reference.
InitStoreAsync ==
    /\ TokenInit /\ SendInit /\ CtxInit /\ ExtInit /\ TargetInit /\ HandlerInit
    /\ storeOps = 0
    /\ storeOp = NoStoreOp
    /\ lastSaved = [k \in ConvIds |-> << >>]
    /\ saver = [p \in Savers |-> [pc |-> "idle", store |-> "null", doc |-> MissingFile]]
    /\ file \in { MissingFile, JsonFile(EmptyStore), JsonFile(StoredBefore) }
    /\ \E loaded \in BOOLEAN :
           /\ storeCache = IF loaded THEN LoadStore(NullStore, file) ELSE NullStore
           /\ cacheObj = IF loaded THEN "o0" ELSE "null"
           /\ objs = [o \in Savers \cup {"o0"} |->
                         IF loaded /\ o = "o0" THEN LoadStore(NullStore, file) ELSE NullStore]

NextStoreAsync ==
    \/ \E p \in Savers : SaveCall(p)
    \/ \E p \in Savers : ReadSettles(p)
    \/ \E p \in Savers : PutAndSaveStore(p)
    \/ \E p \in Savers : MkdirSettles(p)
    \/ \E p \in Savers : WriteSettles(p)

SpecStoreAsync == InitStoreAsync /\ [][NextStoreAsync]_vars

\* Concurrent inbound requests and their tool contexts.
NextCtx ==
    \/ \E r \in Requests, ctx \in GraphToolContexts : InboundMessage(r, ctx)
    \/ \E r \in Requests : ToolRead(r)
    \/ \E r \in Requests, ctx \in GraphToolContexts : SetGraphToolContext(r, ctx)
    \/ \E r \in Requests : HandlerDone(r)

SpecCtx == InitCtx /\ [][NextCtx]_vars

\* ===================================================================== claims
\* the token-endpoint requests of a call (every request but the callback's)
TokenRequests(c) == SelectSeq(sent[c], LAMBDA r : r.tier # "callback")
Tiers(seq) == [i \in 1..Len(seq) |-> seq[i].tier]
\* the state right after call c took the step `name`
JustDid(name, c) == lastOp.op = name /\ lastOp.c = c
\* history: the entries of this (identity, scope) that are inside the validity window
ValidEntriesFor(username, scope) ==
    { k \in EntriesFor(username, scope) : now + ExpiryBufferMs < tokenCache[k].expiresAt }

\* C1: an acquire for an (identity, scope) whose cached token, put there by an
\* earlier successful acquire for that pair, satisfies now + 5 minutes <
\* expiresAt, returns at once the access token that earlier acquire returned,
\* having issued no request at all (no callback request, no token request).
C1_CacheHitNoNetwork ==
    \A c \in Calls :
        JustDid("acquire", c) =>
            \A k \in ValidEntriesFor(call[c].username, call[c].scope) :
                /\ pc[c] = "done"
                /\ result[c] = cachedBy[k].token
                /\ sent[c] = << >>

C1_Witness ==
    \E c \in Calls :
        /\ JustDid("acquire", c)
        /\ ValidEntriesFor(call[c].username, call[c].scope) # {}
        /\ result[c] # Undefined
        /\ acquires = 2

\* C2 as stated (with the three-tier configuration present): an acquire that
\* finds an entry expiring less than five minutes from now never answers from
\* the cache and performs the three-tier exchange, so that it has issued at
\* least the T1 request by the time it returns.
C2_Original_StaleAlwaysThreeTier ==
    \A c \in Calls :
        pc[c] = "done" /\ call[c].stale /\ call[c].cfg.aaInstanceId # "" =>
            /\ ~call[c].hit
            /\ Len(TokenRequests(c)) >= 1
            /\ TokenRequests(c)[1].tier = "T1"

\* C2 amended: an acquire that finds an entry expiring less than five minutes
\* from now never answers from the cache; it starts a fresh acquisition: its
\* first request is the callback request when a callback is configured, else
\* the T1 request when the three-tier configuration resolves; it returns a
\* token only from the callback or from a completed T1, T2, Agent exchange.
C2_StaleEntryIsMiss ==
    \A c \in Calls :
        call[c].stale =>
            /\ ~call[c].hit
            /\ call[c].via # "cache"
            /\ call[c].cfg.callbackUrl # "" => Len(sent[c]) >= 1 /\ sent[c][1].tier = "callback"
            /\ call[c].cfg.callbackUrl = "" /\ call[c].cfg.aaInstanceId # "" =>
                   Len(sent[c]) >= 1 /\ sent[c][1].tier = "T1"
            /\ call[c].cbFailed /\ call[c].cfg.aaInstanceId # "" =>
                   Len(sent[c]) >= 2 /\ sent[c][2].tier = "T1"
            /\ pc[c] = "done" /\ call[c].via = "t1t2" =>
                   Tiers(TokenRequests(c)) = << "T1", "T2", "Agent" >>
            /\ pc[c] = "done" /\ call[c].via \notin {"callback", "t1t2"} => result[c] = Undefined

C2_Witness ==
    \E c \in Calls :
        /\ call[c].stale
        /\ pc[c] = "done"
        /\ call[c].via = "t1t2"
        /\ \E k \in EntriesFor(call[c].username, call[c].scope) :
               tokenCache[k].accessToken = << "tok", 2 >>

\* C3: invalidate(identity) without a scope removes every cache entry that an
\* acquire for that identity put there, whatever its scope, and leaves the
\* entries of every other identity as they were.
C3_InvalidateIdentity ==
    [][ \A u \in Identities :
            lastOp'.op = "invalidate" /\ lastOp'.username = u /\ lastOp'.scope = << >> =>
                /\ DOMAIN tokenCache' = { k \in DOMAIN tokenCache : cachedBy[k].username # u }
                /\ \A k \in DOMAIN tokenCache' : tokenCache'[k] = tokenCache[k]
      ]_vars

C3_Witness ==
    /\ lastOp.op = "invalidate"
    /\ lastOp.username \in Identities
    /\ lastOp.scope = << >>
    /\ lastOp.removed >= 1
    /\ \E k \in DOMAIN tokenCache : cachedBy[k].username # lastOp.username


\* the response that the last step consumed was a non-success HTTP status
JustFailed(name, c) == JustDid(name, c) /\ lastOp.resp.kind = "http"
JustSucceeded(name, c) == JustDid(name, c) /\ lastOp.resp.kind = "ok"

\* C4: when the request of a tier is answered with a non-success HTTP status,
\* the call ends without a request of any later tier: after a T1 failure the
\* call has issued exactly one token-endpoint request, after a T2 failure two,
\* and a call that ended on a tier's error has that tier's request as its last.
C4_FailureStopsExchange ==
    \A c \in Calls :
        /\ JustFailed("t1Response", c) =>
               pc[c] = "done" /\ Tiers(TokenRequests(c)) = << "T1" >>
        /\ JustFailed("t2Response", c) =>
               pc[c] = "done" /\ Tiers(TokenRequests(c)) = << "T1", "T2" >>
        /\ JustFailed("agentResponse", c) =>
               pc[c] = "done" /\ Tiers(TokenRequests(c)) = << "T1", "T2", "Agent" >>
        /\ pc[c] = "done" /\ logged[c].tier \in {"T1", "T2", "Agent"} =>
               sent[c][Len(sent[c])].tier = logged[c].tier

C4_Witness ==
    \E c \in Calls :
        /\ JustFailed("t1Response", c)
        /\ lastOp.resp.status = 401
        /\ Len(TokenRequests(c)) = 1

\* C5: the token-endpoint requests of one call are T1, T2, Agent in this order,
\* each at most once and none skipped; the T2 request is issued by the step
\* that consumed a successful T1 response and its client assertion is the T1
\* token; the Agent request is issued by the step that consumed a successful
\* T2 response, its client assertion is the T1 token and its
\* user_federated_identity_credential the T2 token; nothing is sent twice.
C5_TierOrder ==
    [][ \A c \in Calls :
          LET before == TokenRequests(c)
              after == TokenRequests(c)'
          IN  /\ Tiers(after) \in { << >>, << "T1" >>, << "T1", "T2" >>, << "T1", "T2", "Agent" >> }
              /\ Len(after) >= 2 =>
                     /\ after[2].client_assertion = << "t1", acquires' >>
                     /\ after[2].grant_type = "client_credentials"
              /\ Len(after) >= 3 =>
                     /\ after[3].client_assertion = << "t1", acquires' >>
                     /\ after[3].user_fic = << "t2", acquires' >>
                     /\ after[3].username = call'[c].username
                     /\ after[3].scope = call'[c].scope
              /\ Len(after) = 2 /\ Len(before) = 1 =>
                     lastOp'.op = "t1Response" /\ lastOp'.resp.kind = "ok"
              /\ Len(after) = 3 /\ Len(before) = 2 =>
                     lastOp'.op = "t2Response" /\ lastOp'.resp.kind = "ok"
              /\ Len(after) <= Len(before) + 1
      ]_vars

C5_Witness ==
    \E c \in Calls :
        /\ pc[c] = "done"
        /\ call[c].via = "t1t2"
        /\ Tiers(TokenRequests(c)) = << "T1", "T2", "Agent" >>
        /\ result[c] = << "tok", acquires >>

\* C6: when the Agent request succeeds with expires_in = s at time now, the
\* cache entry of the call's (identity, scope) is {accessToken, expiresAt =
\* now + s * 1000} with the access token of that response, and the call
\* returns that access token.
C6_AgentSuccessCached ==
    \A c \in Calls :
        JustSucceeded("agentResponse", c) =>
            /\ pc[c] = "done"
            /\ result[c] = Minted(lastOp.resp, "tok", acquires)
            /\ EntriesFor(call[c].username, call[c].scope) # {}
            /\ \A k \in EntriesFor(call[c].username, call[c].scope) :
                   tokenCache[k] = [accessToken |-> result[c],
                                    expiresAt |-> now + lastOp.resp.expires_in * 1000]

C6_Witness ==
    \E c \in Calls :
        /\ JustSucceeded("agentResponse", c)
        /\ lastOp.resp.has_token
        /\ lastOp.resp.expires_in = 301
        /\ now > 0

\* C7: when a callback is configured and the callback request fails, the call
\* does not fail for that reason: with the three-tier configuration present it
\* goes on to the T1 request, and when the Agent request then succeeds the
\* call returns the Agent response's token.
C7_CallbackFailureFallsThrough ==
    \A c \in Calls :
        call[c].cbFailed =>
            /\ sent[c][1].tier = "callback"
            /\ raised[c] = NoError
            /\ call[c].cfg.aaInstanceId # "" => Len(sent[c]) >= 2 /\ sent[c][2].tier = "T1"
            /\ JustSucceeded("agentResponse", c) =>
                   /\ pc[c] = "done"
                   /\ call[c].via = "t1t2"
                   /\ result[c] = Minted(lastOp.resp, "tok", acquires)

C7_Witness ==
    \E c \in Calls :
        /\ call[c].cbFailed
        /\ logged[c] = [tier |-> "callback", status |-> 500, body |-> "invalid_client"]
        /\ JustSucceeded("agentResponse", c)
        /\ result[c] = << "tok", acquires >>

C9_KeyedByIdentityAndScope ==
    \A c \in Calls :
        JustDid("acquire", c) /\ call[c].hit =>
            /\ call[c].key \in DOMAIN cachedBy
            /\ cachedBy[call[c].key].username = call[c].username
            /\ cachedBy[call[c].key].scope = call[c].scope
            /\ cachedBy[call[c].key].token = result[c]

\* a token of the same identity under another scope is valid, and the call missed
C9_Witness ==
    \E c \in Calls :
        /\ JustDid("acquire", c)
        /\ ~call[c].hit
        /\ \E k \in DOMAIN cachedBy :
               /\ cachedBy[k].username = call[c].username
               /\ cachedBy[k].scope # call[c].scope
               /\ tokenCache[k].expiresAt > now + ExpiryBufferMs
               /\ tokenCache[k].accessToken # Undefined

\* C10: after a completed save(ref) the store holds under ref's conversation id
\* exactly the entry of that save (nothing of the entry it replaces remains),
\* and getById of that id returns ref, until a later save, delete or clear.
C10_SaveThenGetById ==
    /\ storeOp.op = "save" /\ storeOp.ok =>
           /\ lastSaved[storeOp.id] # << >>
           /\ storeOp.id \in DOMAIN storeCache.references
           /\ storeCache.references[storeOp.id] = lastSaved[storeOp.id][1]
           /\ GetRef(storeCache, storeOp.id) = << lastSaved[storeOp.id][1].ref >>
    /\ storeOp.op = "get" /\ lastSaved[storeOp.id] # << >> =>
           /\ storeOp.ok
           /\ storeOp.result = << lastSaved[storeOp.id][1].ref >>

\* a completed save over an entry with another reference and another user
C10_Witness ==
    /\ storeOp.op = "save"
    /\ storeOp.ok
    /\ storeOp.replaced

\* the keys of the entries the store holds for a user
EntriesOfUser(store, userAadId) ==
    { k \in DOMAIN store.references : Field(store.references[k], "userAadId") = userAadId }
IsGroupEntry(store, k) == store.references[k].ref.conversation.isGroup

\* C11: getByUser(userAadId), when the store holds for that user a group
\* reference and a direct reference, returns the direct one, whatever the two
\* updatedAt values are.
C11_DirectPreferred ==
    storeOp.op = "getByUser" /\ storeOp.ok =>
        \A g, d \in EntriesOfUser(storeCache, storeOp.id) :
            IsGroupEntry(storeCache, g) /\ ~IsGroupEntry(storeCache, d) =>
                storeOp.result = << storeCache.references[d].ref >>

\* C12: getByUser(userAadId) returns a reference stored for that user whose
\* updatedAt no other reference of that user exceeds (of two direct references
\* with different updatedAt, the one with the greater); it returns nothing
\* when the user has no reference, and never a reference stored for another
\* userAadId.
C12_NewestOfUser ==
    storeOp.op = "getByUser" /\ storeOp.ok =>
        LET mine == EntriesOfUser(storeCache, storeOp.id)
        IN  /\ mine = {} => storeOp.result = << >>
            /\ mine # {} =>
                   /\ storeOp.result # << >>
                   /\ LET k == storeOp.result[1].conversation.id
                      IN  /\ k \in mine
                          /\ storeOp.result[1] = storeCache.references[k].ref
                          /\ \A j \in mine : storeCache.references[j].updatedAt
                                                  <= storeCache.references[k].updatedAt

\* two direct references of the user with different updatedAt, and one of another user
C12_Witness ==
    /\ storeOp.op = "getByUser"
    /\ storeOp.ok
    /\ \E k, j \in EntriesOfUser(storeCache, storeOp.id) :
           /\ ~IsGroupEntry(storeCache, k)
           /\ ~IsGroupEntry(storeCache, j)
           /\ storeCache.references[j].updatedAt < storeCache.references[k].updatedAt
           /\ storeOp.result = << storeCache.references[k].ref >>

\* the same conversation ids, and under each id the same reference, updatedAt
\* and userAadId as read property by property
SameReferences(a, b) ==
    /\ DOMAIN a.references = DOMAIN b.references
    /\ \A k \in DOMAIN a.references :
           LET x == a.references[k]
               y == b.references[k]
           IN  /\ x.ref.conversation = y.ref.conversation
               /\ Field(x.ref, "serviceUrl") = Field(y.ref, "serviceUrl")
               /\ x.updatedAt = y.updatedAt
               /\ Field(x, "userAadId") = Field(y, "userAadId")

\* C13: right after a completed save, delete or clear, the store that a
\* restarted process (storeCache null) loads from the file holds the same
\* references as the store in memory: the same conversation ids, each with an
\* equal reference, updatedAt and userAadId.
C13_RestartRoundTrip ==
    storeOp.op \in {"save", "delete", "clear"} /\ storeOp.ok =>
        /\ file.kind = "json"
        /\ HasReferences(LoadStore(NullStore, file))
        /\ SameReferences(LoadStore(NullStore, file), storeCache)

\* after a restart a lookup returns, from the reloaded file, a reference that
\* was saved without a service URL by the process before
C13_Witness ==
    /\ storeOp.op = "get"
    /\ storeOp.result # << >>
    /\ lastSaved[storeOp.id] = << >>
    /\ "serviceUrl" \notin DOMAIN storeOp.result[1]
    /\ storeCache = file.data

\* C14: while the store file is one that cannot be parsed, or one that parses
\* to a document of another top-level shape (a `conversations` map), the
\* store is treated as empty: getById, getByUser and list return absent /
\* empty, and no store operation fails with an error (a save fails only if
\* the write to the disk itself is rejected).
C14_BadFileIsEmptyStore ==
    file.kind = "corrupt" \/ (file.kind = "json" /\ ~HasReferences(file.data)) =>
        /\ storeOp.error \in {NoErr, WriteError}
        /\ storeCache # NullStore => HasReferences(storeCache)
        /\ storeOp.op \in {"get", "getByUser", "list"} /\ storeOps = 1 =>
               storeOp.result = << >>

\* the send got past its configuration checks and its resolver has returned
ResolverReturned ==
    /\ spc \in { "token", "transport", "done" }
    /\ sendResult.state # "threw"
    /\ ResolveA365Credentials(snd.cfg) # << >>
    /\ snd.cfg.agentIdentity # << >>
\* no service URL was given, neither as a parameter nor in the metadata
NoExplicitServiceUrl == Falsy(snd.serviceUrl) /\ Falsy(snd.metadata.serviceUrl)

\* C15: when the target contains neither ':' nor '@', no service URL is given,
\* the lookup by conversation id misses and a stored reference with a service
\* URL has the target as its userAadId, the resolver returns that reference's
\* conversation id and service URL; the lookup by user is tried only for
\* targets containing neither ':' nor '@'.
C15_UserFallback ==
    ResolverReturned /\ snd.lookedUp =>
        /\ snd.triedUser =>
               ~Includes(snd.conversationId, ":") /\ ~Includes(snd.conversationId, "@")
        /\ ( /\ NoExplicitServiceUrl
             /\ snd.byId = << >>
             /\ ~Includes(snd.conversationId, ":")
             /\ ~Includes(snd.conversationId, "@")
             /\ GetRefByUser(storeCache, snd.conversationId) # << >> ) =>
               LET ref == GetRefByUser(storeCache, snd.conversationId)[1]
               IN  ~Falsy(Field(ref, "serviceUrl")) =>
                       snd.resolved = << [conversationId |-> ref.conversation.id,
                                          serviceUrl |-> Field(ref, "serviceUrl")] >>

\* C16: when a non-empty target is given, no service URL is supplied, the
\* store yields no service URL for the target (no reference, or a reference
\* without one) and the tenant id is known, the resolver returns the target
\* as conversation id together with the service URL built from the tenant id.
C16_TenantFallback ==
    ( /\ ResolverReturned
      /\ ~Falsy(snd.to)
      /\ NoExplicitServiceUrl
      /\ snd.lookedUp
      /\ snd.storedRef = << >> \/ Falsy(Field(snd.storedRef[1], "serviceUrl"))
      /\ ResolveA365Credentials(snd.cfg)[1].tenantId # << >> ) =>
        snd.resolved = << [conversationId |-> snd.to,
                           serviceUrl |-> TeamsServiceUrl(
                               ResolveA365Credentials(snd.cfg)[1].tenantId)] >>

\* C17: the resolver yields a result only with a non-empty conversation id and
\* a non-empty service URL; when it yields none, the send returns ok = false
\* with the "Missing service URL or conversation ID. User must message the bot
\* first." error, and this send has called neither getGraphToken nor the
\* transport.
C17_ResolvedOrFailed ==
    /\ snd.resolved # << >> =>
           ~Falsy(snd.resolved[1].conversationId) /\ ~Falsy(snd.resolved[1].serviceUrl)
    /\ ResolverReturned /\ snd.resolved = << >> =>
           /\ spc = "done"
           /\ sendResult = Failed(ErrTarget)
           /\ ~snd.acquired
           /\ transport = << >>
    /\ snd.acquired \/ transport # << >> => snd.resolved # << >>

\* no target at all, while a token for the agent identity is even cached
C17_Witness ==
    /\ ResolverReturned
    /\ sendResult = Failed(ErrTarget)
    /\ Falsy(snd.conversationId)
    /\ CacheValid(tokenCache, CacheKey(snd.cfg.agentIdentity, APX_SCOPE), now)

\* C18: a send (text or card) invokes the transport at most once, only after
\* its getGraphToken call for the agent identity and the APX scope has
\* returned a token, and with exactly that token; when getGraphToken returns
\* no token, the transport is not invoked and the send returns ok = false.
C18_TokenBeforeTransport ==
    /\ Len(transport) <= 1
    /\ \A i \in 1..Len(transport) :
           /\ snd.acquired
           /\ pc["c1"] = "done"
           /\ call["c1"].username = snd.cfg.agentIdentity
           /\ call["c1"].scope = APX_SCOPE
           /\ result["c1"] # Undefined
           /\ transport[i].token = result["c1"]
           /\ transport[i].activity = snd.kind
           /\ << [conversationId |-> transport[i].conversationId,
                  serviceUrl |-> transport[i].serviceUrl] >> = snd.resolved
    /\ spc \in { "transport", "done" } /\ snd.acquired /\ result["c1"] = Undefined =>
           /\ transport = << >>
           /\ sendResult = Failed(ErrToken(snd.kind))
    /\ sendResult.ok => Len(transport) = 1

\* a card delivered with the token an earlier send put into the cache
C18_Witness ==
    /\ sendResult.ok
    /\ snd.kind = "card"
    /\ sends = 2
    /\ call["c1"].hit
    /\ transport[1].token = << "tok", 1 >>

\* C19: a send never throws: whenever it ends, it has returned a result; a
\* failed send returns ok = false with an error text, a transport failure's
\* text being the provider's detail; ok = true is returned only after the
\* transport send succeeded.
C19_NeverThrows ==
    /\ sendResult.state # "threw"
    /\ spc = "done" =>
           /\ sendResult.state = "returned"
           /\ ~sendResult.ok => sendResult.error # ""
           /\ sendResult.ok => Len(transport) = 1

CredentialFields == { "appId", "appPassword", "tenantId" }
Blank(str) == \A i \in 1..Len(str) : str[i] \in WhiteSpace
Stripped(str, value) ==
    /\ value # << >>
    /\ Head(value) \notin WhiteSpace
    /\ value[Len(value)] \notin WhiteSpace
    /\ \E i \in 0..Len(str) : \E j \in 0..Len(str) :
           /\ Len(str) = i + Len(value) + j
           /\ SubSeq(str, i + 1, i + Len(value)) = value
           /\ Blank(SubSeq(str, 1, i))
           /\ Blank(SubSeq(str, i + Len(value) + 1, Len(str)))
CredentialsMissing(cfg) ==
    \E f \in CredentialFields : Blank(cfg[f]) /\ Blank(cfg.env[f])
C21_WitnessFromEnvironment ==
    /\ snd.kind # None
    /\ Blank(snd.cfg.appPassword)
    /\ ~Blank(snd.cfg.env.appPassword)
    /\ sendResult.ok

\* C22: a read (get by id, get by user, list) made when another process wrote
\* the store file at least a staleness window ago, the file still holding what
\* it wrote, returns what the file holds.
ReadOps == { "get", "getByUser", "list" }
ReadOf(store, op, id) ==
    CASE op = "get" -> GetRef(store, id)
      [] op = "getByUser" -> GetRefByUser(store, id)
      [] op = "list" -> ListRefs(store)
C22_ExternalWriteObserved ==
    [][ ( /\ storeOps' = storeOps + 1
          /\ storeOp'.op \in ReadOps
          /\ written.at >= 0
          /\ file = written.file
          /\ \E d \in StaleTickSteps : now - written.at >= d ) =>
            storeOp'.result = ReadOf(LoadStore(NullStore, file), storeOp'.op, storeOp'.id) ]_vars

\* C23: a stored reference without a service URL is not used for delivery:
\* when the resolver's lookup finds such a reference (the store accepted it),
\* the send goes on as after a miss, with the target as conversation id and
\* the service URL built from the tenant id.
C23_UnusableReferenceIsMiss ==
    ( /\ ResolverReturned
      /\ snd.lookedUp
      /\ snd.storedRef # << >>
      /\ storeOp.op = "save"
      /\ Falsy(Field(snd.storedRef[1], "serviceUrl")) ) =>
        snd.resolved = ResolvedOrNull(snd.conversationId,
            TeamsServiceUrl(ResolveA365Credentials(snd.cfg)[1].tenantId))

\* C24: for every known prefix p and every non-empty identifier x without
\* white space, resolving p followed by x yields exactly x; a target without a
\* known prefix yields the target without its surrounding white space; a
\* missing or blank target yields the first allowFrom entry, or a failure.
C24_PrefixStripped ==
    target.called =>
        /\ \A i \in 1..Len(A365Prefixes) : \A x \in TargetIds \ { << >> } :
               target.to = << A365Prefixes[i] \o x >> =>
                   target.ok /\ target.result = << x >>
        /\ ( /\ target.to # << >>
             /\ ~Blank(target.to[1])
             /\ \A i \in 1..Len(A365Prefixes) :
                    ~StartsWith(TrimStart(target.to[1]), A365Prefixes[i]) ) =>
               target.ok /\ Stripped(target.to[1], target.result[1])
        /\ (target.to = << >> \/ Blank(target.to[1])) =>
               IF \E i \in 1..Len(target.allowFrom) : ~Blank(target.allowFrom[i])
               THEN ~target.ok \/ \E i \in 1..Len(target.allowFrom) :
                        /\ ~Blank(target.allowFrom[i])
                        /\ \A j \in 1..(i - 1) : Blank(target.allowFrom[j])
                        /\ target.result = NormalizeA365Target(<< target.allowFrom[i] >>)
               ELSE ~target.ok

\* C25: with a callback URL configured, the first request of an acquire that
\* misses the cache is the callback request; when the callback answers with
\* success and an access token, the acquire returns that token, caches it
\* under its (identity, scope) key and issues no T1, T2 or Agent request.
C25_CallbackOverride ==
    \A c \in Calls :
        /\ (pc[c] # "idle" /\ ~call[c].hit /\ call[c].cfg.callbackUrl # "") =>
               /\ sent[c] # << >>
               /\ sent[c][1] = CallbackRequest(call[c].username, call[c].scope)
        /\ (JustDid("callbackResponse", c) /\ lastOp.resp.kind = "ok"
                /\ lastOp.resp.has_token) =>
               /\ pc[c] = "done"
               /\ result[c] = Minted(lastOp.resp, "tok", acquires)
               /\ CacheKey(call[c].username, call[c].scope) \in DOMAIN tokenCache
               /\ tokenCache[CacheKey(call[c].username, call[c].scope)].accessToken = result[c]
               /\ TokenRequests(c) = << >>
C25_Witness ==
    \E c \in Calls :
        /\ JustDid("callbackResponse", c)
        /\ lastOp.resp.kind = "ok"
        /\ lastOp.resp.has_token
        /\ result[c] # Undefined
        /\ call[c].cfg.aaInstanceId # ""

\* C27: every step of an acquire, except the step that ends it with a token,
\* leaves the token cache as it is: a call that ends without a token has
\* added, replaced and removed nothing.
C27_NoTokenNoCacheChange ==
    [][ ( /\ pc' # pc \/ acquires' # acquires
          /\ \A c \in Calls : pc'[c] = "done" => result'[c] = Undefined ) =>
            tokenCache' = tokenCache ]_vars

\* C30: every cached entry holds an access token, and an acquire answered
\* from the cache returns a token.
C30_CachedTokensPresent ==
    /\ \A k \in DOMAIN tokenCache : tokenCache[k].accessToken # Undefined
    /\ \A c \in Calls : (JustDid("acquire", c) /\ call[c].hit) => result[c] # Undefined

\* C26: when the inbound message handler has returned, every reply send the
\* dispatcher queued while handling the message has settled.
C26_RepliesSettledBeforeReturn ==
    handler.pc = "returned" =>
        \A i \in 1..Len(handler.pendingSends) : handler.pendingSends[i].state # "pending"

\* C29: right after a save, delete or clear whose write to the store file
\* failed, the references served from memory are those a fresh load of the
\* file yields: the failed operation changed neither.
C29_FailedWriteLeavesMemory ==
    (storeOp.op \in {"save", "delete", "clear"} /\ storeOp.error = WriteError) =>
        SameReferences(storeCache, LoadStore(NullStore, file))

\* C28: when two concurrent saves for different conversation ids have both
\* completed, a lookup by id returns each of the two references and the
\* persisted file holds both.
C28_NoLostUpdate ==
    (\A p \in Savers : saver[p].pc = "done") =>
        \A p \in Savers :
            /\ GetRef(storeCache, SaverRef[p].conversation.id) = << SaverRef[p] >>
            /\ GetRef(LoadStore(NullStore, file), SaverRef[p].conversation.id) # << >>

TypeOK == now >= 0
====
